---------------------------- MODULE Spec2Model ----------------------------
(***************************************************************************)
(* A model of chromecleaner.py: the site inventory (get_unique_sites), the *)
(* deletion engine (delete_cookies_for_site, delete_site_data_folders),    *)
(* the backup manager (create_backup) and the batch loop of the GUI        *)
(* (SiteManagerApp.execute_deletion).                                      *)
(*                                                                         *)
(* Strings are sequences of one-character strings, so that LIKE matching,  *)
(* lstrip('.'), lower(), the substring test and code-point ordering are    *)
(* computed character by character, as SQLite and Python compute them.     *)
(***************************************************************************)
EXTENDS Naturals, Sequences, FiniteSets, Bags, TLC

VARIABLES
    fs_cookies,     \* per candidate path: NoFile, or the SQLite file there
    COOKIES_DB,     \* the global COOKIES_DB: the path the engine uses
    dbLocked,       \* another process (the browser) holds the live store
    storage,        \* per storage root: NoDir, or the set of its children
    log,            \* LOG_FILE: the lines log_deletion has appended
    tmpFiles,       \* number of temporary files that exist
    ret,            \* what the last engine call returned or raised
    calls,          \* number of engine calls made so far
    selected,       \* execute_deletion: the sites it was given, in listbox order
    pc,             \* execute_deletion: "idle", "loop", "done" or "fatal"
    idx,            \* execute_deletion: number of sites gone through
    success_count,  \* execute_deletion: success_count
    error_count,    \* execute_deletion: error_count
    progress_window,\* the progress window and its widgets still exist
    log_text,       \* the result lines shown in the progress window
    backup,         \* the directory the last create_backup made
    confirm_window, \* the confirmation dialog is open
    countdown_seconds, \* self.countdown_seconds
    confirm_button, \* state of self.confirm_button: "none", "disabled", "normal", "destroyed"
    timer_callbacks,\* one-second timer callbacks run since the dialog was opened
    asked           \* perform_deletion: the checks it made and the answers it got

\* the state of the batch loop
batchVars == <<selected, pc, idx, success_count, error_count, progress_window, log_text>>

\* the state of the confirmation dialog and of perform_deletion
dialogVars == <<confirm_window, countdown_seconds, confirm_button, timer_callbacks, asked>>

vars == <<fs_cookies, COOKIES_DB, dbLocked, storage, log, tmpFiles, ret, calls,
          selected, pc, idx, success_count, error_count, progress_window, log_text,
          backup, confirm_window, countdown_seconds, confirm_button, timer_callbacks,
          asked>>

(***************************************************************************)
(* Bounds of the model.                                                    *)
(***************************************************************************)
MaxRows == 2        \* rows of the cookies table in an initial store
MaxCalls == 2       \* engine calls in one behaviour
MaxArtifacts == 2   \* children of the storage roots in an initial profile

(***************************************************************************)
(* Characters and strings.                                                 *)
(***************************************************************************)
\* The printable ASCII characters in code-point order, from 32 to 126; the
\* three that a string literal here cannot hold are written as names.
Ascii ==
    << " ", "!", "(quote)", "#", "$", "%", "&", "'", "(", ")", "*", "+", ",", "-",
       ".", "/", "0", "1", "2", "3", "4", "5", "6", "7", "8", "9", ":", ";",
       "<", "=", ">", "?", "@", "A", "B", "C", "D", "E", "F", "G", "H", "I",
       "J", "K", "L", "M", "N", "O", "P", "Q", "R", "S", "T", "U", "V", "W",
       "X", "Y", "Z", "[", "(backslash)", "]", "^", "_", "(backtick)", "a", "b", "c", "d", "e",
       "f", "g", "h", "i", "j", "k", "l", "m", "n", "o", "p", "q", "r", "s",
       "t", "u", "v", "w", "x", "y", "z", "{", "|", "}", "~" >>

Chars == { Ascii[i] : i \in 1..Len(Ascii) }

\* ord(c), as a table
OrdTable == [c \in Chars |-> (CHOOSE i \in 1..Len(Ascii) : Ascii[i] = c) + 31]

Ord(c) == OrdTable[c]

\* ASCII lower-casing of one character (str.lower, and SQLite's LIKE
\* folding), as a table: 'A'..'Z' are 65..90, 'a' is 97.
LowerTable ==
    [c \in Chars |-> IF OrdTable[c] >= 65 /\ OrdTable[c] <= 90
                     THEN Ascii[OrdTable[c] + 32 - 31] ELSE c]

LowerChar(c) == LowerTable[c]

\* str.lower()
LowerStr(s) == [i \in 1..Len(s) |-> LowerChar(s[i])]

\* Python's str <: lexicographic by code point, a proper prefix first.
RECURSIVE StrLess(_, _)
StrLess(a, b) ==
    IF b = <<>> THEN FALSE
    ELSE IF a = <<>> THEN TRUE
    ELSE IF Head(a) = Head(b) THEN StrLess(Tail(a), Tail(b))
    ELSE Ord(Head(a)) < Ord(Head(b))

\* a variant of LStripDots that removes one leading dot only
StripOneDot(s) == IF s # <<>> /\ Head(s) = "." THEN Tail(s) ELSE s

\* host.lstrip('.'): every leading dot is removed.
RECURSIVE LStripDots(_)
LStripDots(s) ==
    IF s # <<>> /\ Head(s) = "." THEN LStripDots(Tail(s)) ELSE s

\* a in b, for strings: a occurs in b at some offset
IsSubstring(a, b) ==
    \E i \in 0..Len(b) :
        /\ i + Len(a) <= Len(b)
        /\ \A j \in 1..Len(a) : b[i + j] = a[j]

\* a variant of Like that compares letters as they are written
RECURSIVE LikeCaseSensitive(_, _)
LikeCaseSensitive(pattern, text) ==
    IF pattern = <<>> THEN text = <<>>
    ELSE IF Head(pattern) = "%"
        THEN LikeCaseSensitive(Tail(pattern), text)
             \/ (text # <<>> /\ LikeCaseSensitive(pattern, Tail(text)))
    ELSE /\ text # <<>>
         /\ (Head(pattern) = "_" \/ Head(pattern) = Head(text))
         /\ LikeCaseSensitive(Tail(pattern), Tail(text))

\* SQLite's  text LIKE pattern  with no ESCAPE: % matches any run of
\* characters, _ matches one character, any other character matches itself
\* with ASCII case folded.
RECURSIVE Like(_, _)
Like(pattern, text) ==
    IF pattern = <<>> THEN text = <<>>
    ELSE IF Head(pattern) = "%"
        THEN Like(Tail(pattern), text)
             \/ (text # <<>> /\ Like(pattern, Tail(text)))
    ELSE /\ text # <<>>
         /\ (Head(pattern) = "_" \/ LowerChar(Head(pattern)) = LowerChar(Head(text)))
         /\ Like(Tail(pattern), Tail(text))

(***************************************************************************)
(* The strings of the model: host keys a cookie store may hold and the     *)
(* names of storage artifacts.                                             *)
(***************************************************************************)
x_com         == <<"x", ".", "c", "o", "m">>
dot_x_com     == <<".">> \o x_com
dotdot_x_com  == <<".", ".">> \o x_com
www_x_com     == <<"w", "w", "w", ".">> \o x_com
api_x_com     == <<"a", "p", "i", ".">> \o x_com
evil_x_com    == <<"e", "v", "i", "l", "-">> \o x_com
x_com_dot     == x_com \o <<".">>
X_com         == <<"X", ".", "c", "o", "m">>
x_us_com      == <<"x", "_", "c", "o", "m">>
a_com         == <<"a", ".", "c", "o", "m">>
dot_a_com     == <<".">> \o a_com
B_com         == <<"B", ".", "c", "o", "m">>
b_com         == <<"b", ".", "c", "o", "m">>
only_dot      == <<".">>
empty_str     == <<>>

target_com    == <<"t", "a", "r", "g", "e", "t", ".", "c", "o", "m">>
Target_com    == <<"T", "a", "r", "g", "e", "t", ".", "c", "o", "m">>
https_        == <<"h", "t", "t", "p", "s", "_">>
_0_ldb        == <<"_", "0", ".", "l", "d", "b">>
\* https_sub.target.com_0.ldb
n_sub_target  == https_ \o <<"s", "u", "b", ".">> \o target_com \o _0_ldb
\* unrelated.org_0.ldb
n_unrelated   == <<"u", "n", "r", "e", "l", "a", "t", "e", "d", ".", "o", "r", "g">> \o _0_ldb
\* https_TARGET.COM_0.ldb
n_upper_target ==
    https_ \o <<"T", "A", "R", "G", "E", "T", ".", "C", "O", "M">> \o _0_ldb

\* https_a.com_0.ldb
n_a_com       == https_ \o a_com \o _0_ldb

\* host_key values of the rows a cookie store may hold
HostKeys ==
    { x_com, dot_x_com, dotdot_x_com, www_x_com, evil_x_com, x_com_dot,
      X_com, x_us_com, a_com, B_com, only_dot, empty_str }

\* the site strings an engine call may be given
SiteArgs == { x_com, x_us_com, a_com, b_com }

(***************************************************************************)
(* The cookie store.  A file is NoFile or [hasTable, rows]; rows is the    *)
(* bag of the host_key values of the rows of its cookies table.            *)
(***************************************************************************)
NoFile == [exists |-> FALSE, hasTable |-> FALSE, rows |-> EmptyBag]

DbFile(hasTable, rows) == [exists |-> TRUE, hasTable |-> hasTable, rows |-> rows]

\* CHROME_PROFILE / 'Network' / 'Cookies', and CHROME_PROFILE / 'Cookies'
PrimaryPath == "Network/Cookies"
LegacyPath == "Cookies"
CandidatePaths == {PrimaryPath, LegacyPath}

\* default_paths of get_unique_sites: the first and the third name the same
\* file, the second is the primary path again.
default_paths == <<LegacyPath, PrimaryPath, LegacyPath>>

RECURSIVE BagOfSeq(_)
BagOfSeq(s) ==
    IF s = <<>> THEN EmptyBag ELSE SetToBag({Head(s)}) (+) BagOfSeq(Tail(s))

\* every bag of at most n host keys
StoresUpTo(n) ==
    { BagOfSeq(s) : s \in UNION { [1..k -> HostKeys] : k \in 0..n } }

\* the rows of bag b whose host_key is in set keep
Restrict(b, keep) == [h \in (DOMAIN b) \cap keep |-> b[h]]

(***************************************************************************)
(* log_deletion                                                            *)
(***************************************************************************)
\* details: f"{n} deleted", f"{n} items", or the text of an exception (n = 0)
Details(n, text) == [n |-> n, text |-> text]

LogLine(site, deletion_type, status, details) ==
    [site |-> site, type |-> deletion_type, status |-> status, details |-> details]

\* log_deletion(site, deletion_type, status, details): one line appended
log_deletion(lg, site, deletion_type, status, details) ==
    Append(lg, LogLine(site, deletion_type, status, details))

(***************************************************************************)
(* What an engine call gave its caller: the value returned, or the         *)
(* exception raised: its class, the fixed text of its message and the     *)
(* values the f-string of the message interpolates.                        *)
(***************************************************************************)
NoCall == [op |-> "none", site |-> <<>>, raised |-> FALSE, exc |-> "", msg |-> "",
           count |-> 0, list |-> <<>>, dir |-> "None", args |-> <<>>]

Returned(op, site, count, list) ==
    [op |-> op, site |-> site, raised |-> FALSE, exc |-> "", msg |-> "",
     count |-> count, list |-> list, dir |-> "None", args |-> <<>>]

\* return backup_dir, backup_count  and  return None, 0
ReturnedPair(op, dir, count) ==
    [op |-> op, site |-> <<>>, raised |-> FALSE, exc |-> "", msg |-> "",
     count |-> count, list |-> <<>>, dir |-> dir, args |-> <<>>]

Raised(op, site, exc, msg) ==
    [op |-> op, site |-> site, raised |-> TRUE, exc |-> exc, msg |-> msg,
     count |-> 0, list |-> <<>>, dir |-> "None", args |-> <<>>]

\* raise Exception(f"...{str(e)}"): the message interpolates args
RaisedWith(op, site, exc, msg, args) ==
    [op |-> op, site |-> site, raised |-> TRUE, exc |-> exc, msg |-> msg,
     count |-> 0, list |-> <<>>, dir |-> "None", args |-> args]

\* the fixed texts of the messages of the exceptions get_unique_sites raises
MsgNotFound == "Cookies DB not found\nEnsure Chrome is closed and path is correct."
MsgLocked   == "Chrome database is locked. Please close Chrome completely."
MsgDbError  == "Database error: "
MsgFailed   == "Failed to read cookies: "

\* str(e) of the exceptions that get_unique_sites wraps
CauseNoTable     == "Cookies table not found in database"
CauseCopy        == "Permission denied"
CauseOperational == "disk I/O error"
CauseNotADb      == "file is not a database"

(***************************************************************************)
(* get_unique_sites                                                        *)
(***************************************************************************)
\* the for ... else over default_paths: the first candidate that exists
RECURSIVE FirstExisting(_, _)
FirstExisting(fs, paths) ==
    IF paths = <<>> THEN "none"
    ELSE IF fs[Head(paths)].exists THEN Head(paths)
    ELSE FirstExisting(fs, Tail(paths))

\* the path COOKIES_DB holds after the probing at the head of the function
ResolvePath(fs, db) ==
    IF fs[db].exists THEN db ELSE FirstExisting(fs, default_paths)

\* sorted(sites), by insertion
RECURSIVE InsertSorted(_, _)
InsertSorted(s, sortedSeq) ==
    IF sortedSeq = <<>> THEN <<s>>
    ELSE IF StrLess(s, Head(sortedSeq)) THEN <<s>> \o sortedSeq
    ELSE <<Head(sortedSeq)>> \o InsertSorted(s, Tail(sortedSeq))

RECURSIVE sorted(_)
sorted(sites) ==
    IF sites = <<>> THEN <<>> ELSE InsertSorted(Head(sites), sorted(Tail(sites)))

InSeq(x, s) == \E i \in 1..Len(s) : s[i] = x

\* SELECT DISTINCT host_key FROM cookies WHERE host_key IS NOT NULL AND
\* host_key != ''
SelectDistinctHostKeys(rows) == { h \in DOMAIN rows : h # <<>> }

\* the loop over cursor.fetchall(): strip the leading dots, keep a host that
\* is not empty and not yet in sites
RECURSIVE CollectSites(_, _)
CollectSites(fetched, sites) ==
    IF fetched = {} THEN sites
    ELSE LET row == CHOOSE h \in fetched : TRUE
             host == LStripDots(row)
         IN  CollectSites(fetched \ {row},
                          IF host # <<>> /\ ~InSeq(host, sites)
                              THEN Append(sites, host) ELSE sites)

\* the list get_unique_sites returns for a store with these rows
UniqueSites(rows) == sorted(CollectSites(SelectDistinctHostKeys(rows), <<>>))

\* what reading the temporary copy with sqlite3 may meet
SqlOutcomes == {"ok", "locked", "operational", "notadb"}

\* a variant of copy2 that moves the file: nothing is left at the source
copy2_moves(file) == [src |-> NoFile, dst |-> file]

\* shutil.copy2(COOKIES_DB, temp_db.name): what is at the source and what is
\* at the destination afterwards
copy2(file) == [src |-> file, dst |-> file]

\* the checks and the prompts of perform_deletion, as it records them
Checked(result) == [call |-> "is_chrome_running", title |-> "", result |-> result]

Answered(title, result) == [call |-> "askyesno", title |-> title, result |-> result]

\* what get_unique_sites() does to the store, the temporary files and the
\* result.  copyOk: shutil.copy2 succeeded; sql: what sqlite3 met on the
\* temporary copy.
get_unique_sites_body(copyOk, sql) ==
    /\ LET path == ResolvePath(fs_cookies, COOKIES_DB)
           op == "get_unique_sites"
       IN  IF path = "none"
           THEN \* the else of the for loop: before any temporary file
                /\ copyOk /\ sql = "ok"
                /\ COOKIES_DB' = COOKIES_DB
                /\ fs_cookies' = fs_cookies
                /\ tmpFiles' = tmpFiles
                /\ ret' = Raised(op, <<>>, "FileNotFoundError", MsgNotFound)
           ELSE LET copied == copy2(fs_cookies[path])
                    temp_db == copied.dst
                IN
                /\ COOKIES_DB' = path
                /\ fs_cookies' = IF copyOk THEN [fs_cookies EXCEPT ![path] = copied.src]
                                 ELSE fs_cookies
                /\ IF ~copyOk
                   THEN \* copy2 raised: except Exception, the temporary file stays
                        /\ sql = "ok"
                        /\ tmpFiles' = tmpFiles + 1
                        /\ ret' = RaisedWith(op, <<>>, "Exception", MsgFailed, <<CauseCopy>>)
                   ELSE IF sql = "locked"
                   THEN /\ tmpFiles' = tmpFiles + 1
                        /\ ret' = Raised(op, <<>>, "Exception", MsgLocked)
                   ELSE IF sql = "operational"
                   THEN /\ tmpFiles' = tmpFiles + 1
                        /\ ret' = RaisedWith(op, <<>>, "Exception", MsgDbError,
                                             <<CauseOperational>>)
                   ELSE IF sql = "notadb"
                   THEN /\ tmpFiles' = tmpFiles + 1
                        /\ ret' = RaisedWith(op, <<>>, "Exception", MsgFailed, <<CauseNotADb>>)
                   ELSE IF ~temp_db.hasTable
                   THEN \* closed, unlinked, raised and wrapped by except Exception
                        /\ tmpFiles' = tmpFiles
                        /\ ret' = RaisedWith(op, <<>>, "Exception", MsgFailed, <<CauseNoTable>>)
                   ELSE /\ tmpFiles' = tmpFiles
                        /\ ret' = Returned(op, <<>>, 0, UniqueSites(temp_db.rows))

\* get_unique_sites() called on its own
get_unique_sites(copyOk, sql) ==
    /\ calls < MaxCalls
    /\ calls' = calls + 1
    /\ UNCHANGED <<dbLocked, storage, log>>
    /\ UNCHANGED batchVars
    /\ UNCHANGED dialogVars
    /\ UNCHANGED backup
    /\ get_unique_sites_body(copyOk, sql)

(***************************************************************************)
(* delete_cookies_for_site                                                 *)
(***************************************************************************)
\* a variant of patterns whose wildcard forms are not anchored at a dot
patterns_unanchored(site) ==
    << site,
       <<".">> \o site,
       <<"w", "w", "w", ".">> \o site,
       <<"m", ".">> \o site,
       <<"m", "o", "b", "i", "l", "e", ".">> \o site,
       <<"a", "p", "i", ".">> \o site,
       <<"%">> \o site,
       <<"%">> \o site \o <<".">>,
       site \o <<".">> >>

\* a variant of patterns without the two wildcard forms
patterns_literal(site) ==
    << site,
       <<".">> \o site,
       <<"w", "w", "w", ".">> \o site,
       <<"m", ".">> \o site,
       <<"m", "o", "b", "i", "l", "e", ".">> \o site,
       <<"a", "p", "i", ".">> \o site,
       site \o <<".">> >>

\* patterns
patterns(site) ==
    << site,
       <<".">> \o site,
       <<"w", "w", "w", ".">> \o site,
       <<"m", ".">> \o site,
       <<"m", "o", "b", "i", "l", "e", ".">> \o site,
       <<"a", "p", "i", ".">> \o site,
       <<"%", ".">> \o site,
       <<"%", ".">> \o site \o <<".">>,
       site \o <<".">> >>

\* the rows DELETE FROM cookies WHERE host_key LIKE ? removes
Matching(rows, pattern) == { h \in DOMAIN rows : Like(pattern, h) }

\* a variant of DeleteLoop in which every pattern is counted against the rows
\* the call began with, so that a row matching two patterns is counted twice
RECURSIVE DeleteLoopRecount(_, _, _)
DeleteLoopRecount(rows, pats, deleted_count) ==
    IF pats = <<>> THEN [rows |-> rows, deleted_count |-> deleted_count]
    ELSE LET hit == Matching(rows, Head(pats))
             rest == DeleteLoopRecount(rows, Tail(pats),
                                       deleted_count + BagCardinality(Restrict(rows, hit)))
         IN  [rows |-> Restrict(rest.rows, (DOMAIN rest.rows) \ hit),
              deleted_count |-> rest.deleted_count]

\* for pattern in patterns: execute the DELETE, add cursor.rowcount
RECURSIVE DeleteLoop(_, _, _)
DeleteLoop(rows, pats, deleted_count) ==
    IF pats = <<>> THEN [rows |-> rows, deleted_count |-> deleted_count]
    ELSE LET hit == Matching(rows, Head(pats))
         IN  DeleteLoop(Restrict(rows, (DOMAIN rows) \ hit), Tail(pats),
                        deleted_count + BagCardinality(Restrict(rows, hit)))

\* the sqlite3 errors of an open connection, by the place they strike: at
\* the first execute, at the seventh execute (the six literal patterns have
\* been applied), at conn.commit() (all nine have been applied)
IoFaults == {"ioerror", "ioerror_mid", "ioerror_commit"}

\* the number of patterns applied when the fault strikes
Applied(fault) ==
    IF fault = "ioerror" THEN 0 ELSE IF fault = "ioerror_mid" THEN 6 ELSE 9

\* what may stop the call: nothing, the parent directory of COOKIES_DB
\* missing at connect, or an sqlite3 error of the open connection.
DeleteFaults == {"none", "nodir"} \cup IoFaults

\* a variant of drop_connection in which every DELETE is committed as it is
\* executed
drop_connection_autocommit(before, pending) == pending

\* the handler returns with conn neither committed nor closed: the connection
\* is released with the function's frame and its open transaction is rolled
\* back.  before: the rows at connect; pending: the rows inside the transaction
drop_connection(before, pending) == before

\* the faults that can happen on this file: connect fails only where there
\* is no file, and a held or table-less store fails by itself
FaultPossible(file, locked, fault) ==
    IF ~file.exists THEN fault \in {"none", "nodir"}
    ELSE IF locked \/ ~file.hasTable THEN fault = "none"
    ELSE fault \in {"none"} \cup IoFaults

\* a variant of cookies_except that lets the exception leave the function
cookies_except_reraises(fs, lg, site, msg) ==
    [fs_cookies |-> fs, log |-> lg, deleted_count |-> 0, raised |-> TRUE, msg |-> msg]

\* except Exception as e: log_deletion(site, "COOKIES", "ERROR", str(e)) and
\* return 0; nothing was committed
cookies_except(fs, lg, site, msg) ==
    [fs_cookies |-> fs,
     log |-> log_deletion(lg, site, "COOKIES", "ERROR", Details(0, msg)),
     deleted_count |-> 0, raised |-> FALSE, msg |-> ""]

\* the whole of delete_cookies_for_site(site) as a function of the state: the
\* files and the log it leaves, the count it returns, whether it raised
CookiesCall(fs, db, locked, lg, site, fault) ==
    LET file == fs[db]
    IN  IF ~file.exists
        THEN IF fault = "nodir"
             THEN \* connect fails
                  cookies_except(fs, lg, site, "unable to open database file")
             ELSE \* connect creates an empty file; the DELETE finds no table
                  cookies_except([fs EXCEPT ![db] = DbFile(FALSE, EmptyBag)], lg, site,
                                 "no such table: cookies")
        ELSE IF locked
        THEN cookies_except(fs, lg, site, "database is locked")
        ELSE IF ~file.hasTable
        THEN cookies_except(fs, lg, site, "no such table: cookies")
        ELSE IF fault \in IoFaults
        THEN \* the DELETEs executed so far are in a transaction never committed
             LET done == SubSeq(patterns(site), 1, Applied(fault))
                 pending == DeleteLoop(file.rows, done, 0).rows
             IN  cookies_except([fs EXCEPT ![db].rows = drop_connection(file.rows, pending)],
                                lg, site, "disk I/O error")
        ELSE LET d == DeleteLoop(file.rows, patterns(site), 0)
             IN  [fs_cookies |-> [fs EXCEPT ![db].rows = d.rows],
                  log |-> log_deletion(lg, site, "COOKIES",
                                       IF d.deleted_count > 0 THEN "SUCCESS" ELSE "NONE",
                                       Details(d.deleted_count, "deleted")),
                  deleted_count |-> d.deleted_count, raised |-> FALSE, msg |-> ""]

\* delete_cookies_for_site(site)
delete_cookies_for_site(site, fault) ==
    /\ calls < MaxCalls
    /\ FaultPossible(fs_cookies[COOKIES_DB], dbLocked, fault)
    /\ calls' = calls + 1
    /\ UNCHANGED <<COOKIES_DB, dbLocked, storage, tmpFiles>>
    /\ UNCHANGED batchVars
    /\ UNCHANGED dialogVars
    /\ UNCHANGED backup
    /\ \E c \in {CookiesCall(fs_cookies, COOKIES_DB, dbLocked, log, site, fault)} :
          /\ fs_cookies' = c.fs_cookies
          /\ log' = c.log
          /\ ret' = IF c.raised
                    THEN Raised("delete_cookies_for_site", site, "Exception", c.msg)
                    ELSE Returned("delete_cookies_for_site", site, c.deleted_count, <<>>)

(***************************************************************************)
(* The storage roots and delete_site_data_folders.  A root is NoDir or a   *)
(* directory with its immediate children; a child is a file or a           *)
(* directory, and is busy when the system refuses to remove it.            *)
(***************************************************************************)
\* storage_paths of delete_site_data_folders, in its order
storage_paths ==
    << "Local Storage", "Session Storage", "IndexedDB", "CacheStorage", "ScriptCache" >>

StorageRoots == { storage_paths[i] : i \in 1..Len(storage_paths) }

NoDir == [exists |-> FALSE, children |-> {}]

Dir(children) == [exists |-> TRUE, children |-> children]

Child(name, isDir, busy) == [name |-> name, isDir |-> isDir, busy |-> busy]

EmptyProfileStorage == [r \in StorageRoots |-> NoDir]

\* f"{path_name}: {item.name}"
ItemRecord(path_name, name) == [root |-> path_name, name |-> name]

\* a variant of NameMatches that does not lower-case the name of the item
NameMatchesCaseSensitive(site_lower, name) == IsSubstring(site_lower, name)

\* site_lower in item.name.lower()
NameMatches(site_lower, name) == IsSubstring(site_lower, LowerStr(name))

\* the body of the inner try for a matching item: a directory goes through
\* shutil.rmtree(item, ignore_errors=True), which leaves a busy directory in
\* place without raising, and is recorded; a file goes through item.unlink(),
\* which raises for a busy file, and is recorded only when that returned;
\* the handler of the inner try prints "Could not delete" for the file.
RemoveItem(item, path_name, acc) ==
    IF item.isDir
    THEN [acc EXCEPT !.children = IF item.busy THEN @ ELSE @ \ {item},
                     !.deleted_items = Append(@, ItemRecord(path_name, item.name))]
    ELSE IF item.busy
    THEN [acc EXCEPT !.printed = @ \cup {ItemRecord(path_name, item.name)}]
    ELSE [acc EXCEPT !.children = @ \ {item},
                     !.deleted_items = Append(@, ItemRecord(path_name, item.name))]

\* for item in path_obj.iterdir(): in the order the system lists them
RECURSIVE IterDir(_, _, _, _)
IterDir(todo, site_lower, path_name, acc) ==
    IF todo = {} THEN acc
    ELSE LET item == CHOOSE c \in todo : TRUE
         IN  IterDir(todo \ {item}, site_lower, path_name,
                     IF NameMatches(site_lower, item.name)
                         THEN RemoveItem(item, path_name, acc) ELSE acc)

\* one turn of  for path_obj, path_name in storage_paths:  a root that does
\* not exist is skipped, the children of one that does are gone through
RootPass(root, site_lower, path_name) ==
    IF ~root.exists
    THEN [children |-> {}, deleted_items |-> <<>>, printed |-> {}]
    ELSE IterDir(root.children, site_lower, path_name,
                 [children |-> root.children, deleted_items |-> <<>>, printed |-> {}])

RECURSIVE ConcatItems(_, _, _)
ConcatItems(passes, k, last) ==
    IF k > last THEN <<>>
    ELSE passes[k].deleted_items \o ConcatItems(passes, k + 1, last)

\* the loop over storage_paths.  faultRoot is the index of a root whose
\* path_obj.exists() raises (0: none does): the exception leaves the
\* function with the roots before it done and the others untouched.
RootLoop(st, site_lower, faultRoot) ==
    LET last == IF faultRoot = 0 THEN Len(storage_paths) ELSE faultRoot - 1
        passes == [k \in 1..last |->
                      RootPass(st[storage_paths[k]], site_lower, storage_paths[k])]
    IN  [storage |-> [r \in StorageRoots |->
                         LET k == CHOOSE n \in 1..Len(storage_paths) : storage_paths[n] = r
                         IN  IF k <= last /\ st[r].exists
                             THEN Dir(passes[k].children) ELSE st[r]],
         deleted_items |-> ConcatItems(passes, 1, last),
         printed |-> UNION { passes[k].printed : k \in 1..last },
         raised |-> faultRoot # 0]

\* the index of the root whose exists() raises, or 0
StorageFaults == 0..Len(storage_paths)

MsgPermission == "PermissionError"

\* the whole of delete_site_data_folders(site) as a function of the state:
\* the storage and the log it leaves, the list it returns, whether it raised
FoldersCall(st, lg, site, faultRoot) ==
    LET r == RootLoop(st, LowerStr(site), faultRoot)
    IN  [storage |-> r.storage,
         deleted_items |-> r.deleted_items,
         printed |-> r.printed,
         raised |-> r.raised,
         log |-> IF ~r.raised /\ r.deleted_items # <<>>
                 THEN log_deletion(lg, site, "STORAGE", "SUCCESS",
                                   Details(Len(r.deleted_items), "items"))
                 ELSE lg]

\* delete_site_data_folders(site)
delete_site_data_folders(site, faultRoot) ==
    /\ calls < MaxCalls
    /\ calls' = calls + 1
    /\ UNCHANGED <<fs_cookies, COOKIES_DB, dbLocked, tmpFiles>>
    /\ UNCHANGED batchVars
    /\ UNCHANGED dialogVars
    /\ UNCHANGED backup
    /\ \E r \in {FoldersCall(storage, log, site, faultRoot)} :
          /\ storage' = r.storage
          /\ log' = r.log
          /\ ret' = IF r.raised
                    THEN Raised("delete_site_data_folders", site, "PermissionError",
                                MsgPermission)
                    ELSE Returned("delete_site_data_folders", site, 0, r.deleted_items)

(***************************************************************************)
(* create_backup.  The backup directory is named by the second of the      *)
(* call; each call of a behaviour is taken to fall in a second of its own, *)
(* so that it starts from an empty directory.                              *)
(***************************************************************************)
NoManifest == [written |-> FALSE, count |-> 0]

\* backup_info.txt with its line "Files backed up: {backup_count}"
Manifest(backup_count) == [written |-> TRUE, count |-> backup_count]

NoBackup == [exists |-> FALSE, copied |-> {}, partial |-> {}, manifest |-> NoManifest]

\* files_to_backup with file_path.name, file_path.is_dir() and whether the
\* entry is there to copy (not None, and it exists)
files_to_backup(fs, db, st) ==
    << [name |-> "Cookies", isDir |-> FALSE, present |-> fs[db].exists],
       [name |-> "Local Storage", isDir |-> TRUE, present |-> st["Local Storage"].exists],
       [name |-> "Session Storage", isDir |-> TRUE,
        present |-> st["Session Storage"].exists] >>

\* for file_path in files_to_backup: the copy of entry failAt raises, which
\* leaves the loop; copy2 leaves nothing behind, copytree what it had copied
RECURSIVE CopyLoop(_, _, _, _)
CopyLoop(files, k, failAt, acc) ==
    IF k > Len(files) THEN acc
    ELSE IF ~files[k].present THEN CopyLoop(files, k + 1, failAt, acc)
    ELSE IF failAt = k
    THEN [acc EXCEPT !.raised = TRUE,
                     !.partial = IF files[k].isDir THEN @ \cup {files[k].name} ELSE @]
    ELSE CopyLoop(files, k + 1, failAt,
                  [acc EXCEPT !.copied = @ \cup {files[k].name},
                              !.backup_count = @ + 1])

\* what may fail: nothing (0), the copy of an entry (its index), or the
\* writing of backup_info.txt (the index after the last)
BackupFaults == 0..4

\* create_backup()
create_backup(failAt) ==
    /\ calls < MaxCalls
    /\ calls' = calls + 1
    /\ UNCHANGED <<fs_cookies, COOKIES_DB, dbLocked, storage, log, tmpFiles>>
    /\ UNCHANGED batchVars
    /\ UNCHANGED dialogVars
    /\ LET files == files_to_backup(fs_cookies, COOKIES_DB, storage)
           r == CopyLoop(files, 1, failAt,
                         [copied |-> {}, partial |-> {}, backup_count |-> 0,
                          raised |-> FALSE])
       IN  /\ failAt \in 1..Len(files) => files[failAt].present
           /\ IF r.raised \/ failAt > Len(files)
              THEN \* except Exception: return None, 0
                   /\ backup' = [exists |-> TRUE, copied |-> r.copied,
                                 partial |-> r.partial, manifest |-> NoManifest]
                   /\ ret' = ReturnedPair("create_backup", "None", 0)
              ELSE /\ backup' = [exists |-> TRUE, copied |-> r.copied,
                                 partial |-> r.partial,
                                 manifest |-> Manifest(r.backup_count)]
                   /\ ret' = ReturnedPair("create_backup", "backup_dir", r.backup_count)

(***************************************************************************)
(* SiteManagerApp.execute_deletion: the loop over the selected sites.      *)
(* Every turn of the loop calls progress_window.update(), which runs the   *)
(* pending window events: the user may have closed the progress window,    *)
(* and every later use of one of its widgets then raises TclError.         *)
(***************************************************************************)
MsgTcl == "invalid command name"

\* the body of the inner try up to the result line: both sub-operations; an
\* exception leaving the first skips the second
TrySite(fs, db, locked, st, lg, site, fault, faultRoot) ==
    LET c == CookiesCall(fs, db, locked, lg, site, fault)
    IN  IF c.raised
        THEN [fs_cookies |-> c.fs_cookies, storage |-> st, log |-> c.log,
              raised |-> TRUE, msg |-> c.msg,
              cookies_deleted |-> 0, other_deleted |-> <<>>]
        ELSE LET f == FoldersCall(st, c.log, site, faultRoot)
             IN  [fs_cookies |-> c.fs_cookies, storage |-> f.storage, log |-> f.log,
                  raised |-> f.raised, msg |-> IF f.raised THEN MsgPermission ELSE "",
                  cookies_deleted |-> c.deleted_count, other_deleted |-> f.deleted_items]

\* a result line of the progress window: "cookies, storage items" (or "No
\* data found" when both are zero), or "Error: " and the message
Shown(site, failed, cookies, items, msg) ==
    [site |-> site, failed |-> failed, cookies |-> cookies, items |-> items, msg |-> msg]

\* a variant of inner_except whose handler raises again in every case
inner_except_reraises(alive, n, lg, site, msg) ==
    [raised |-> TRUE, error_count |-> n, log |-> lg]

\* the handler of the inner try: the error line is inserted into log_text,
\* which raises when the window is gone; then error_count += 1 and the
\* ALL/ERROR line is logged
inner_except(alive, n, lg, site, msg) ==
    IF ~alive
    THEN [raised |-> TRUE, error_count |-> n, log |-> lg]
    ELSE [raised |-> FALSE, error_count |-> n + 1,
          log |-> log_deletion(lg, site, "ALL", "ERROR", Details(0, msg))]

\* when the user closes the progress window during a turn of the loop: not
\* at all, at the update() before the inner try, or at the update() after it
WindowEvents == {"none", "before", "after"}

\* one turn of  for i, site in enumerate(sites, 1)
execute_deletion_site(fault, faultRoot, closing) ==
    /\ pc = "loop"
    /\ idx < Len(selected)
    /\ FaultPossible(fs_cookies[COOKIES_DB], dbLocked, fault)
    /\ UNCHANGED <<COOKIES_DB, dbLocked, tmpFiles, ret, calls, selected, backup>>
    /\ UNCHANGED dialogVars
    /\ IF ~progress_window
       THEN \* self.progress_bar['value'] = progress raises, and in the outer
            \* handler self.log_text.insert raises again
            /\ fault = "none" /\ faultRoot = 0 /\ closing = "none"
            /\ pc' = "fatal"
            /\ UNCHANGED <<fs_cookies, storage, log, idx, success_count, error_count,
                           progress_window, log_text>>
       ELSE \E t \in {TrySite(fs_cookies, COOKIES_DB, dbLocked, storage, log,
                              selected[idx + 1], fault, faultRoot)} :
            LET site == selected[idx + 1]
                alive == closing # "before"
                \* the try block raised: a sub-operation did, or the insert
                \* of the result line did
                failed == t.raised \/ ~alive
                h == inner_except(alive, error_count, t.log, site,
                                  IF t.raised THEN t.msg ELSE MsgTcl)
            IN  /\ fs_cookies' = t.fs_cookies
                /\ storage' = t.storage
                /\ progress_window' = (closing = "none")
                /\ IF failed /\ h.raised
                   THEN \* out of the loop, and out of the outer handler too
                        /\ pc' = "fatal"
                        /\ log' = t.log
                        /\ UNCHANGED <<idx, success_count, error_count, log_text>>
                   ELSE /\ pc' = "loop"
                        /\ idx' = idx + 1
                        /\ log' = IF failed THEN h.log ELSE t.log
                        /\ error_count' = IF failed THEN h.error_count ELSE error_count
                        /\ success_count' = IF failed THEN success_count
                                            ELSE success_count + 1
                        /\ log_text' =
                              Append(log_text,
                                     IF failed THEN Shown(site, TRUE, 0, 0, t.msg)
                                     ELSE Shown(site, FALSE, t.cookies_deleted,
                                                Len(t.other_deleted), ""))

\* after the loop: the final update and the summary
execute_deletion_summary ==
    /\ pc = "loop"
    /\ idx = Len(selected)
    /\ pc' = IF progress_window THEN "done" ELSE "fatal"
    /\ UNCHANGED <<fs_cookies, COOKIES_DB, dbLocked, storage, log, tmpFiles, ret, calls,
                   selected, idx, success_count, error_count, progress_window, log_text,
                   backup>>
    /\ UNCHANGED dialogVars

\* no confirmation dialog has been opened yet
NoDialog ==
    /\ confirm_window = FALSE
    /\ countdown_seconds = 0
    /\ confirm_button = "none"
    /\ timer_callbacks = 0
    /\ asked = <<>>

\* no deletion batch has been started
NoBatch ==
    /\ selected = <<>>
    /\ pc = "idle"
    /\ idx = 0
    /\ success_count = 0
    /\ error_count = 0
    /\ progress_window = FALSE
    /\ log_text = <<>>

(***************************************************************************)
(* Initial profiles.                                                       *)
(***************************************************************************)
\* the stores of the examples of the specification
ExampleStores ==
    { SetToBag({x_com, dot_x_com, www_x_com, api_x_com, evil_x_com}),
      SetToBag({a_com, dot_a_com, B_com}) }

\* a leftover store at the legacy path
LegacyFile == DbFile(TRUE, SetToBag({a_com}))

\* A cookie store with its cookies table and any rows, nothing holding it; or
\* one of the example stores, held by the browser or not; or no file, or a
\* file with no cookies table; these with or without a leftover legacy file.
InitStore ==
    /\ COOKIES_DB = PrimaryPath
    /\ \/ /\ \E b \in StoresUpTo(MaxRows) :
                fs_cookies = [p \in CandidatePaths |->
                                 IF p = PrimaryPath THEN DbFile(TRUE, b) ELSE NoFile]
          /\ dbLocked = FALSE
       \/ /\ \E primary \in {NoFile, DbFile(FALSE, EmptyBag)}
                             \cup { DbFile(TRUE, b) : b \in ExampleStores },
                legacy \in {NoFile, LegacyFile} :
                fs_cookies = [p \in CandidatePaths |->
                                 IF p = PrimaryPath THEN primary ELSE legacy]
          /\ dbLocked \in BOOLEAN
          /\ dbLocked => fs_cookies[PrimaryPath].hasTable

(***************************************************************************)
(* The inventory: get_unique_sites on a drawn cookie store.                *)
(***************************************************************************)
InitInventory ==
    /\ InitStore
    /\ storage = EmptyProfileStorage
    /\ log = <<>>
    /\ tmpFiles = 0
    /\ ret = NoCall
    /\ calls = 0
    /\ backup = NoBackup
    /\ NoBatch
    /\ NoDialog

NextInventory ==
    \E copyOk \in BOOLEAN, sql \in SqlOutcomes : get_unique_sites(copyOk, sql)

SpecInventory == InitInventory /\ [][NextInventory]_vars

(***************************************************************************)
(* Cookie deletion: delete_cookies_for_site on a drawn cookie store.       *)
(***************************************************************************)
InitCookies ==
    /\ InitStore
    /\ storage = EmptyProfileStorage
    /\ log = <<>>
    /\ tmpFiles = 0
    /\ ret = NoCall
    /\ calls = 0
    /\ backup = NoBackup
    /\ NoBatch
    /\ NoDialog

NextCookies ==
    \E site \in SiteArgs, fault \in DeleteFaults : delete_cookies_for_site(site, fault)

SpecCookies == InitCookies /\ [][NextCookies]_vars

(***************************************************************************)
(* Storage deletion: delete_site_data_folders on a drawn profile.          *)
(***************************************************************************)
\* the site strings a storage deletion may be given
StorageSiteArgs == { target_com, Target_com }

\* the children a storage root may hold
ChildKinds ==
    { Child(n_sub_target, FALSE, FALSE), Child(n_sub_target, TRUE, FALSE),
      Child(n_sub_target, FALSE, TRUE), Child(n_sub_target, TRUE, TRUE),
      Child(n_unrelated, FALSE, FALSE), Child(n_upper_target, FALSE, FALSE) }

\* a root and one child of it
Slots == StorageRoots \X ChildKinds

\* the storage with these children: a root exists when it has a child
StorageOf(slots) ==
    [r \in StorageRoots |->
        LET cs == { sl[2] : sl \in { x \in slots : x[1] = r } }
        IN  IF cs = {} THEN NoDir ELSE Dir(cs)]

\* no directory holds two children of one name
DistinctNames(slots) ==
    \A a, b \in slots : (a[1] = b[1] /\ a[2].name = b[2].name) => a = b

RECURSIVE SlotSets(_)
SlotSets(n) ==
    IF n = 0 THEN {{}}
    ELSE LET smaller == SlotSets(n - 1)
         IN  smaller \cup { ss \cup {sl} : ss \in smaller, sl \in Slots }

InitStorage ==
    /\ fs_cookies = [p \in CandidatePaths |-> NoFile]
    /\ COOKIES_DB = PrimaryPath
    /\ dbLocked = FALSE
    /\ \E slots \in SlotSets(MaxArtifacts) :
          /\ DistinctNames(slots)
          /\ storage = StorageOf(slots)
    /\ log = <<>>
    /\ tmpFiles = 0
    /\ ret = NoCall
    /\ calls = 0
    /\ backup = NoBackup
    /\ NoBatch
    /\ NoDialog

NextStorage ==
    \E site \in StorageSiteArgs, faultRoot \in StorageFaults :
        delete_site_data_folders(site, faultRoot)

SpecStorage == InitStorage /\ [][NextStorage]_vars

(***************************************************************************)
(* A deletion batch: execute_deletion on a selection of the listed sites.  *)
(***************************************************************************)
\* the sites of the listbox, in its order
ListedSites == <<a_com, target_com, x_com>>

\* [self.listbox.get(i) for i in self.listbox.curselection()]
RECURSIVE Selection(_, _)
Selection(k, chosen) ==
    IF k > Len(ListedSites) THEN <<>>
    ELSE (IF k \in chosen THEN <<ListedSites[k]>> ELSE <<>>) \o Selection(k + 1, chosen)

\* the cookie stores of a batch
BatchStores ==
    { NoFile, DbFile(FALSE, EmptyBag),
      DbFile(TRUE, SetToBag({a_com, dot_a_com, target_com, www_x_com, evil_x_com})),
      DbFile(TRUE, SetToBag({x_com, X_com})) }

\* the storage of a batch
BatchStorages ==
    { EmptyProfileStorage,
      StorageOf({ <<"Local Storage", Child(n_sub_target, FALSE, FALSE)>>,
                  <<"Local Storage", Child(n_a_com, FALSE, FALSE)>>,
                  <<"IndexedDB", Child(n_unrelated, TRUE, FALSE)>> }),
      StorageOf({ <<"Session Storage", Child(n_upper_target, FALSE, FALSE)>>,
                  <<"IndexedDB", Child(n_sub_target, TRUE, TRUE)>>,
                  <<"ScriptCache", Child(n_a_com, TRUE, FALSE)>> }) }

\* perform_deletion has opened the progress window and scheduled
\* execute_deletion with the selection
InitBatch ==
    /\ COOKIES_DB = PrimaryPath
    /\ \E primary \in BatchStores :
          fs_cookies = [p \in CandidatePaths |-> IF p = PrimaryPath THEN primary ELSE NoFile]
    /\ dbLocked \in BOOLEAN
    /\ dbLocked => fs_cookies[PrimaryPath].hasTable
    /\ storage \in BatchStorages
    /\ log = <<>>
    /\ tmpFiles = 0
    /\ ret = NoCall
    /\ calls = 0
    /\ backup = NoBackup
    /\ \E chosen \in (SUBSET (1..Len(ListedSites))) \ {{}} :
          selected = Selection(1, chosen)
    /\ pc = "loop"
    /\ idx = 0
    /\ success_count = 0
    /\ error_count = 0
    /\ progress_window = TRUE
    /\ log_text = <<>>
    /\ confirm_window = FALSE
    /\ countdown_seconds = 0
    /\ confirm_button = "destroyed"
    /\ timer_callbacks = 5
    /\ asked = <<Checked(FALSE)>>

NextBatch ==
    \/ \E fault \in DeleteFaults, faultRoot \in StorageFaults, closing \in WindowEvents :
          execute_deletion_site(fault, faultRoot, closing)
    \/ execute_deletion_summary

SpecBatch == InitBatch /\ [][NextBatch]_vars

(***************************************************************************)
(* A backup: create_backup on a drawn profile.                             *)
(***************************************************************************)
\* the storage of a profile before a backup: which roots exist
BackupStorages ==
    { EmptyProfileStorage,
      StorageOf({ <<"Local Storage", Child(n_sub_target, FALSE, FALSE)>> }),
      StorageOf({ <<"Session Storage", Child(n_unrelated, FALSE, FALSE)>> }),
      StorageOf({ <<"Local Storage", Child(n_sub_target, FALSE, FALSE)>>,
                  <<"Session Storage", Child(n_a_com, FALSE, FALSE)>> }) }

InitBackup ==
    /\ InitStore
    /\ storage \in BackupStorages
    /\ log = <<>>
    /\ tmpFiles = 0
    /\ ret = NoCall
    /\ calls = 0
    /\ backup = NoBackup
    /\ NoBatch
    /\ NoDialog

NextBackup == \E failAt \in BackupFaults : create_backup(failAt)

SpecBackup == InitBackup /\ [][NextBackup]_vars

(***************************************************************************)
(* The engine: inventory, cookie deletion, storage deletion and backup in  *)
(* any order on one profile.                                               *)
(***************************************************************************)
InitEngine ==
    /\ COOKIES_DB = PrimaryPath
    /\ \E primary \in {NoFile, DbFile(FALSE, EmptyBag)}
                       \cup { DbFile(TRUE, b) : b \in ExampleStores },
          legacy \in {NoFile, LegacyFile} :
          fs_cookies = [p \in CandidatePaths |->
                           IF p = PrimaryPath THEN primary ELSE legacy]
    /\ dbLocked \in BOOLEAN
    /\ dbLocked => fs_cookies[PrimaryPath].hasTable
    /\ storage \in BackupStorages
    /\ log = <<>>
    /\ tmpFiles = 0
    /\ ret = NoCall
    /\ calls = 0
    /\ backup = NoBackup
    /\ NoBatch
    /\ NoDialog

NextEngine ==
    \/ \E copyOk \in BOOLEAN, sql \in SqlOutcomes : get_unique_sites(copyOk, sql)
    \/ \E site \in SiteArgs, fault \in DeleteFaults : delete_cookies_for_site(site, fault)
    \/ \E site \in StorageSiteArgs, faultRoot \in StorageFaults :
          delete_site_data_folders(site, faultRoot)
    \/ \E failAt \in BackupFaults : create_backup(failAt)

SpecEngine == InitEngine /\ [][NextEngine]_vars

(***************************************************************************)
(* Properties of cookie deletion.                                          *)
(***************************************************************************)
\* the rows of the cookies table of the store the engine uses
LiveRows == fs_cookies[COOKIES_DB].rows

\* the step is a call of delete_cookies_for_site
IsDeleteCookiesStep == calls' = calls + 1 /\ ret'.op = "delete_cookies_for_site"

\* the call of this step logged an error
DeleteCookiesFailed == log'[Len(log')].status = "ERROR"

EndsWith(h, suffix) ==
    Len(h) >= Len(suffix) /\ SubSeq(h, Len(h) - Len(suffix) + 1, Len(h)) = suffix

\* h is s, or ends in '.' + s: s itself, '.' + s, or a dot-separated subdomain
IsSiteOrSubdomain(h, s) == h = s \/ EndsWith(h, <<".">> \o s)

\* h equals p with ASCII case folded, an underscore of p standing for any
\* one character
FoldEq(h, p) ==
    /\ Len(h) = Len(p)
    /\ \A i \in 1..Len(p) : p[i] = "_" \/ LowerChar(h[i]) = LowerChar(p[i])

FoldEndsWith(h, p) ==
    Len(h) >= Len(p) /\ FoldEq(SubSeq(h, Len(h) - Len(p) + 1, Len(h)), p)

\* what the nine patterns cover, for a site with no '%' in it: s, anything
\* ending in '.' + s, and both again with a trailing dot
Covered(h, s) ==
    \/ FoldEq(h, s)
    \/ FoldEndsWith(h, <<".">> \o s)
    \/ FoldEq(h, s \o <<".">>)
    \/ FoldEndsWith(h, <<".">> \o s \o <<".">>)

\* C1 as stated: delete_cookies_for_site(s) removes every row whose host_key
\* is s, '.'+s or a dot-separated subdomain of s, and leaves in place every
\* row whose host_key is neither s nor a dot-separated subdomain of s.
C1_RemovesExactlySiteAndSubdomains ==
    [][IsDeleteCookiesStep /\ ~DeleteCookiesFailed =>
          LET s == ret'.site
              before == LiveRows
              after == LiveRows'
          IN  \A h \in DOMAIN before :
                 IF IsSiteOrSubdomain(h, s)
                 THEN h \notin DOMAIN after
                 ELSE h \in DOMAIN after /\ after[h] = before[h]]_vars

\* C1 amended: a call that completes without error removes exactly the rows
\* whose host_key matches one of the nine patterns under LIKE (ASCII case
\* folded, '_' of the site matching any character): s, '.'+s and every
\* dot-separated subdomain of s go, and so do s+'.', what ends in '.'+s+'.'
\* and their case variants; every other row stays with its copies
\* ('evil-'+s stays).  The store of the example keeps evil-x.com only.
C1_RemovesExactlyCoveredRows ==
    [][IsDeleteCookiesStep /\ ~DeleteCookiesFailed =>
          LET s == ret'.site
              before == LiveRows
              after == LiveRows'
          IN  /\ DOMAIN after \subseteq DOMAIN before
              /\ \A h \in DOMAIN before :
                    /\ IsSiteOrSubdomain(h, s) => h \notin DOMAIN after
                    /\ Covered(h, s) => h \notin DOMAIN after
                    /\ ~Covered(h, s) => h \in DOMAIN after /\ after[h] = before[h]
              /\ (evil_x_com \in DOMAIN before /\ s = x_com)
                    => evil_x_com \in DOMAIN after
              /\ (s = x_com /\ before = SetToBag({x_com, dot_x_com, www_x_com,
                                                  api_x_com, evil_x_com}))
                    => after = SetToBag({evil_x_com})]_vars

\* the example of C1 has run: only evil-x.com is left of the five rows
C1_Witness ==
    /\ ret.op = "delete_cookies_for_site"
    /\ ret.site = x_com
    /\ ret.count = 4
    /\ LiveRows = SetToBag({evil_x_com})
    /\ log[Len(log)].status = "SUCCESS"

(***************************************************************************)
(* Properties of the inventory.                                            *)
(***************************************************************************)
GotSites == ret.op = "get_unique_sites" /\ ~ret.raised

\* sorted by code point with no two entries equal
StrictlySorted(list) == \A i \in 1..(Len(list) - 1) : StrLess(list[i], list[i + 1])

\* sorted, no duplicates, no empty string, no leading dot, every entry the
\* stripped form of a non-empty host_key of the store
SitesWellFormed(list, rows) ==
    /\ StrictlySorted(list)
    /\ \A i, j \in 1..Len(list) : list[i] = list[j] => i = j
    /\ \A i \in 1..Len(list) :
          /\ list[i] # <<>>
          /\ Head(list[i]) # "."
          /\ \E h \in DOMAIN rows :
                /\ h # <<>>
                /\ \E k \in 0..Len(h) :
                      /\ list[i] = SubSeq(h, k + 1, Len(h))
                      /\ \A d \in 1..k : h[d] = "."

\* h without its leading dots, computed by position
Undotted(h) ==
    LET k == CHOOSE n \in 0..Len(h) :
                 /\ \A d \in 1..n : h[d] = "."
                 /\ (n < Len(h) => h[n + 1] # ".")
    IN  SubSeq(h, k + 1, Len(h))

\* C2 as stated: the list is sorted by code point, has no duplicates, no
\* empty string and no entry starting with a dot, keeps letter case, every
\* entry is the dot-stripped form of a non-empty host_key, and the stripped
\* form of every non-empty host_key is in the list.
C2_InventoryOfEveryHostKey ==
    GotSites =>
        /\ SitesWellFormed(ret.list, LiveRows)
        /\ \A h \in DOMAIN LiveRows : h # <<>> => InSeq(Undotted(h), ret.list)

\* C2 amended: as stated, except that a host_key made of dots only has an
\* empty stripped form and contributes no entry: the stripped form of every
\* other non-empty host_key is in the list.  Host keys a.com, .a.com, B.com
\* give [B.com, a.com].
C2_InventoryOfEveryNamedHostKey ==
    GotSites =>
        /\ SitesWellFormed(ret.list, LiveRows)
        /\ \A h \in DOMAIN LiveRows :
              Undotted(h) # <<>> => InSeq(Undotted(h), ret.list)
        /\ LiveRows = SetToBag({a_com, dot_a_com, B_com}) => ret.list = <<B_com, a_com>>

\* an inventory of a store that holds a host_key of dots only and another
C2_Witness ==
    /\ GotSites
    /\ only_dot \in DOMAIN LiveRows
    /\ Len(ret.list) = 1

\* C7: after get_unique_sites returns or raises, no temporary file that the
\* call created still exists.
C7_TempFileDiscarded ==
    ret.op = "get_unique_sites" => tmpFiles = 0

\* C8: when the cookie store is held by another process, get_unique_sites
\* fails with the error of the Locked kind.
C8_LockedStoreReported ==
    (ret.op = "get_unique_sites" /\ dbLocked) => (ret.raised /\ ret.msg = MsgLocked)

(***************************************************************************)
(* Properties of storage deletion.                                         *)
(***************************************************************************)
\* the step is a call of delete_site_data_folders that returned
IsFoldersStep ==
    /\ calls' = calls + 1
    /\ ret'.op = "delete_site_data_folders"
    /\ ~ret'.raised

\* the children of a root in a storage
ChildrenOf(st, r) == IF st[r].exists THEN st[r].children ELSE {}

\* name contains s, letter case apart, compared position by position
FoldContains(name, s) ==
    \E i \in 0..(Len(name) - Len(s)) :
        \A j \in 1..Len(s) : LowerChar(name[i + j]) = LowerChar(s[j])

\* name contains s as it is written
Contains(name, s) ==
    \E i \in 0..(Len(name) - Len(s)) : \A j \in 1..Len(s) : name[i + j] = s[j]

\* C5 as stated: delete_site_data_folders(site) removes an immediate child of
\* an existing storage root if and only if the name of the child contains the
\* lower-cased site; nothing else is removed.
C5_RemovesChildrenContainingSite ==
    [][IsFoldersStep =>
          /\ \A r \in StorageRoots :
                /\ storage'[r].exists = storage[r].exists
                /\ ChildrenOf(storage', r) \subseteq ChildrenOf(storage, r)
                /\ \A c \in ChildrenOf(storage, r) :
                      (c \notin ChildrenOf(storage', r))
                          <=> Contains(c.name, LowerStr(ret'.site))
          /\ fs_cookies' = fs_cookies]_vars

\* C5 amended: the call removes an immediate child of an existing storage
\* root if and only if the lower-cased name of the child contains the
\* lower-cased site and the system lets the child be removed; a child whose
\* name contains the site in another letter case goes too, a child that
\* cannot be removed stays.  The roots themselves and the cookie store are
\* left alone.  Deleting target.com removes https_sub.target.com_0.ldb and
\* keeps unrelated.org_0.ldb.
C5_RemovesChildrenContainingSiteFolded ==
    [][IsFoldersStep =>
          /\ \A r \in StorageRoots :
                /\ storage'[r].exists = storage[r].exists
                /\ ChildrenOf(storage', r) \subseteq ChildrenOf(storage, r)
                /\ \A c \in ChildrenOf(storage, r) :
                      /\ (c \notin ChildrenOf(storage', r))
                            <=> (FoldContains(c.name, ret'.site) /\ ~c.busy)
                      /\ (c.name = n_sub_target /\ ~c.busy /\ ret'.site = target_com)
                            => c \notin ChildrenOf(storage', r)
                      /\ c.name = n_unrelated => c \in ChildrenOf(storage', r)
          /\ fs_cookies' = fs_cookies]_vars

\* target.com was deleted: the artifact named in upper case is gone and
\* recorded, unrelated.org_0.ldb is still there
C5_Witness ==
    /\ ret.op = "delete_site_data_folders"
    /\ ~ret.raised
    /\ ret.site = target_com
    /\ \E r \in StorageRoots :
          /\ \E i \in 1..Len(ret.list) : ret.list[i] = ItemRecord(r, n_upper_target)
          /\ \A c \in ChildrenOf(storage, r) : c.name # n_upper_target
    /\ \E r \in StorageRoots : \E c \in ChildrenOf(storage, r) : c.name = n_unrelated

\* C3: deleting the same site twice in succession is idempotent: the second
\* call of delete_site_data_folders returns an empty list, does not raise,
\* and leaves the profile as the first call left it.
C3_SecondDeletionFindsNothing ==
    [][(/\ ret.op = "delete_site_data_folders"
        /\ ~ret.raised
        /\ IsFoldersStep
        /\ ret'.site = ret.site)
          => /\ ret'.list = <<>>
             /\ storage' = storage
             /\ fs_cookies' = fs_cookies]_vars

\* C6: every deletion attempt writes exactly one audit-log line per site and
\* category: a call of delete_site_data_folders that returns appends one
\* STORAGE line for its site, whether it removed zero items or more.
C6_OneStorageLinePerAttempt ==
    [][IsFoldersStep =>
          /\ Len(log') = Len(log) + 1
          /\ SubSeq(log', 1, Len(log)) = log
          /\ log'[Len(log')].type = "STORAGE"
          /\ log'[Len(log')].site = ret'.site]_vars

(***************************************************************************)
(* Properties of the deletion batch.                                       *)
(***************************************************************************)
\* the step is a turn of the loop that went through a site
IsSiteStep == pc = "loop" /\ idx' = idx + 1

\* the rows of the bag, with their copies
Rows(b) == BagCardinality(b)

\* the children of this storage that a deletion of the site can remove
Removable(st, r, site) ==
    { c \in ChildrenOf(st, r) : FoldContains(c.name, site) /\ ~c.busy }

\* the deletion of the site removed from the storage what it can remove
StorageDeletionDone(site) ==
    \A r \in StorageRoots :
        ChildrenOf(storage', r) = ChildrenOf(storage, r) \ Removable(storage, r, site)

\* the deletion of the site removed its rows from the cookie store
CookieDeletionDone(site) ==
    /\ \A h \in DOMAIN LiveRows :
          IF Covered(h, site) THEN h \notin DOMAIN LiveRows'
          ELSE h \in DOMAIN LiveRows' /\ LiveRows'[h] = LiveRows[h]
    /\ DOMAIN LiveRows' \subseteq DOMAIN LiveRows

\* the batch counted every site it went through once, in the order of the
\* selection, and stopped early only because the window was gone
BatchCounted ==
    /\ pc = "fatal" => ~progress_window
    /\ pc \in {"loop", "done"} =>
          /\ idx <= Len(selected)
          /\ success_count + error_count = idx
          /\ Len(log_text) = idx
          /\ \A k \in 1..idx : log_text[k].site = selected[k]
          /\ error_count = Cardinality({ k \in 1..idx : log_text[k].failed })
    /\ pc = "done" =>
          /\ idx = Len(selected)
          /\ success_count + error_count = Len(selected)

StoreUnusable ==
    dbLocked \/ ~fs_cookies[COOKIES_DB].exists \/ ~fs_cookies[COOKIES_DB].hasTable

\* C9: the two sub-operations of a site deletion are independent.  In every
\* turn of the loop the cookie deletion is attempted and logs its line; when
\* it fails, the storage deletion of the site still runs and removes what it
\* can remove; when the storage deletion fails, the cookie deletion that
\* came before it stays done.
C9_SubOperationsIndependent ==
    [][IsSiteStep =>
          LET site == selected[idx']
              line == log_text'[idx']
              cookies_line == log'[Len(log) + 1]
          IN  /\ cookies_line.type = "COOKIES"
              /\ cookies_line.site = site
              /\ StoreUnusable => cookies_line.status = "ERROR"
              /\ (cookies_line.status = "ERROR" /\ ~line.failed) =>
                    /\ StorageDeletionDone(site)
                    /\ line.items =
                          Cardinality({ x \in StorageRoots \X UNION { ChildrenOf(storage, r) : r \in StorageRoots } :
                                           /\ x[2] \in ChildrenOf(storage, x[1])
                                           /\ FoldContains(x[2].name, site)
                                           /\ (x[2].isDir \/ ~x[2].busy) })
              /\ (StoreUnusable /\ line.failed) => line.msg = MsgPermission
              /\ (line.failed /\ cookies_line.status # "ERROR") =>
                    /\ CookieDeletionDone(site)
                    /\ cookies_line.details.n = Rows(LiveRows) - Rows(LiveRows')]_vars

\* target.com was deleted while the store was held: its cookie deletion
\* failed and its storage artifact was removed all the same
C9_Witness ==
    /\ dbLocked
    /\ idx >= 1
    /\ \E k \in 1..idx : log_text[k] = Shown(target_com, FALSE, 0, 1, "")
    /\ \E n \in 1..(Len(log) - 1) :
          /\ log[n] = LogLine(target_com, "COOKIES", "ERROR", Details(0, "database is locked"))
          /\ log[n + 1] = LogLine(target_com, "STORAGE", "SUCCESS", Details(1, "items"))
    /\ \A r \in StorageRoots : \A c \in ChildrenOf(storage, r) : c.name # n_sub_target

(***************************************************************************)
(* Properties of the backup.                                               *)
(***************************************************************************)
\* C10: after create_backup() the count returned is the number of artifacts
\* copied into the backup directory, and the manifest, where there is one,
\* states the same count; with only the cookie store present and a backup
\* directory returned the count is 1.
C10_ManifestStatesCopiedCount ==
    ret.op = "create_backup" =>
        /\ ret.count = Cardinality(backup.copied)
        /\ backup.manifest.written => backup.manifest.count = ret.count
        /\ (/\ ret.dir # "None"
            /\ fs_cookies[COOKIES_DB].exists
            /\ ~storage["Local Storage"].exists
            /\ ~storage["Session Storage"].exists) => ret.count = 1

\* the entries of files_to_backup that are there to copy
PresentFiles ==
    LET files == files_to_backup(fs_cookies, COOKIES_DB, storage)
    IN  { files[k].name : k \in { n \in 1..Len(files) : files[n].present } }

\* C11: a copy failure of one item does not abort the backup: after a
\* create_backup() in which the copy of an item failed, every other item is
\* copied, the manifest is written, and the count returned and stated is the
\* number of items copied.
C11_CopyFailureDoesNotAbortBackup ==
    (ret.op = "create_backup" /\ PresentFiles \ backup.copied # {}) =>
        /\ Cardinality(PresentFiles \ backup.copied) = 1
        /\ backup.manifest.written
        /\ backup.manifest.count = Cardinality(backup.copied)
        /\ ret.count = Cardinality(backup.copied)

(***************************************************************************)
(* Properties of the inventory: the store it reads and the errors it      *)
(* raises.                                                                 *)
(***************************************************************************)
\* the step is a call of get_unique_sites
IsInventoryStep == calls' = calls + 1 /\ ret'.op = "get_unique_sites"

\* the positions of default_paths at which a file exists
ExistingCandidates ==
    { k \in 1..Len(default_paths) : fs_cookies[default_paths[k]].exists }

\* C12: when the primary cookie-store path does not exist, get_unique_sites
\* adopts the first candidate of default_paths that exists, for this and
\* all later operations; when none exists it fails with the not-found error
\* and the message of the error names every candidate path tried.
C12_FallbackProbedAndNamed ==
    [][(IsInventoryStep /\ ~fs_cookies[COOKIES_DB].exists) =>
          IF ExistingCandidates # {}
          THEN /\ \E k \in ExistingCandidates :
                     /\ \A n \in ExistingCandidates : k <= n
                     /\ COOKIES_DB' = default_paths[k]
               /\ ret'.exc # "FileNotFoundError"
          ELSE /\ COOKIES_DB' = COOKIES_DB
               /\ ret'.raised
               /\ ret'.exc = "FileNotFoundError"
               /\ \A k \in 1..Len(default_paths) : InSeq(default_paths[k], ret'.args)]_vars

\* C13: an inventory scan never changes the live cookie store: after
\* get_unique_sites, on every exit path, every cookie store file is where it
\* was with the rows it had, and the list returned is read from those rows;
\* a step that changes a cookie store file is a delete_cookies_for_site, and
\* it changes the file at COOKIES_DB in place: no file disappears and no
\* other file changes.
C13_InventoryLeavesStoreAlone ==
    [][/\ IsInventoryStep =>
             /\ fs_cookies' = fs_cookies
             /\ ~ret'.raised => ret'.list = UniqueSites(fs_cookies[COOKIES_DB'].rows)
       /\ fs_cookies' # fs_cookies =>
             /\ ret'.op = "delete_cookies_for_site"
             /\ COOKIES_DB' = COOKIES_DB
             /\ \A p \in CandidatePaths :
                   /\ fs_cookies[p].exists => fs_cookies'[p].exists
                   /\ p # COOKIES_DB => fs_cookies'[p] = fs_cookies[p]]_vars

\* the inventory of the store of the example was taken after a deletion had
\* changed the store: the rows are those the deletion left
C13_Witness ==
    /\ calls = 2
    /\ GotSites
    /\ ret.list = <<B_com>>
    /\ LiveRows = SetToBag({B_com})
    /\ Len(log) = 1
    /\ log[1].status = "SUCCESS"

\* the kind of an error: its class and the fixed text of its message
ErrorKind(r) == <<r.exc, r.msg>>

\* the call failed because the copy has no cookies table
FailedOnMissingTable(r) ==
    r.op = "get_unique_sites" /\ r.raised /\ r.args = <<CauseNoTable>>

\* C14: when the copied cookie store has no cookies table, get_unique_sites
\* fails with an error of a kind of its own: a call that fails for the
\* missing table and the call before it, failed for another reason, never
\* raise errors of the same kind.
C14_MissingTableHasOwnKind ==
    [][(/\ IsInventoryStep
        /\ ret.op = "get_unique_sites"
        /\ ret.raised
        /\ ~FailedOnMissingTable(ret)
        /\ FailedOnMissingTable(ret'))
          => ErrorKind(ret') # ErrorKind(ret)]_vars

(***************************************************************************)
(* Properties of the deletion batch: what is reported as an error.         *)
(***************************************************************************)
\* C15: in a batch, a site whose cookie deletion hit an exception (the
\* COOKIES line of its turn is an ERROR line) is reported as an error:
\* error_count is incremented for it, an ALL/ERROR line is logged, its result
\* line is an error line, and it is not counted as a success.
C15_FailedSiteCountedAsError ==
    [][(IsSiteStep /\ log'[Len(log) + 1].type = "COOKIES"
                   /\ log'[Len(log) + 1].status = "ERROR") =>
          /\ error_count' = error_count + 1
          /\ success_count' = success_count
          /\ log_text'[idx'].failed
          /\ log'[Len(log')].type = "ALL"
          /\ log'[Len(log')].status = "ERROR"
          /\ log'[Len(log')].site = selected[idx']]_vars

(***************************************************************************)
(* Properties of storage deletion: the list it returns.                    *)
(***************************************************************************)
\* C16: every entry "<root-name>: <item-name>" of the list returned by
\* delete_site_data_folders names an artifact that no longer exists after
\* the call, and every artifact the call removed has exactly one entry.
C16_EntriesNameRemovedArtifacts ==
    [][IsFoldersStep =>
          /\ \A i \in 1..Len(ret'.list) :
                /\ ret'.list[i].root \in StorageRoots
                /\ \A c \in ChildrenOf(storage', ret'.list[i].root) :
                      c.name # ret'.list[i].name
          /\ \A r \in StorageRoots :
                \A c \in ChildrenOf(storage, r) \ ChildrenOf(storage', r) :
                   Cardinality({ i \in 1..Len(ret'.list) :
                                    ret'.list[i] = ItemRecord(r, c.name) }) = 1]_vars

(***************************************************************************)
(* Properties of cookie deletion: letter case and the count returned.      *)
(***************************************************************************)
\* h equals p as written, an underscore of p standing for any one character
ExactEq(h, p) ==
    /\ Len(h) = Len(p)
    /\ \A i \in 1..Len(p) : p[i] = "_" \/ h[i] = p[i]

ExactEndsWith(h, p) ==
    Len(h) >= Len(p) /\ ExactEq(SubSeq(h, Len(h) - Len(p) + 1, Len(h)), p)

\* what the nine patterns cover when letters are compared as written
CoveredAsWritten(h, s) ==
    \/ ExactEq(h, s)
    \/ ExactEndsWith(h, <<".">> \o s)
    \/ ExactEq(h, s \o <<".">>)
    \/ ExactEndsWith(h, <<".">> \o s \o <<".">>)

\* h is covered by the patterns of s in another letter case only
CoveredInOtherCase(h, s) == Covered(h, s) /\ ~CoveredAsWritten(h, s)

\* C17 as stated: cookie deletion matches host keys case-sensitively: a row
\* whose host_key differs from each of the nine patterns only in letter case
\* stays in place (deleting b.com does not remove B.com).
C17_OtherCaseRowsStay ==
    [][IsDeleteCookiesStep /\ ~DeleteCookiesFailed =>
          \A h \in DOMAIN LiveRows :
             CoveredInOtherCase(h, ret'.site) =>
                h \in DOMAIN LiveRows' /\ LiveRows'[h] = LiveRows[h]]_vars

\* C17 amended: cookie deletion matches host keys with LIKE, which folds
\* ASCII letter case: a call that completes without error removes every row
\* whose host_key differs from one of the nine patterns only in letter case
\* (deleting b.com removes B.com, deleting x.com removes X.com), with all
\* its copies, and counts them.
C17_OtherCaseRowsRemoved ==
    [][IsDeleteCookiesStep /\ ~DeleteCookiesFailed =>
          /\ \A h \in DOMAIN LiveRows :
                CoveredInOtherCase(h, ret'.site) => h \notin DOMAIN LiveRows'
          /\ (ret'.site = b_com /\ B_com \in DOMAIN LiveRows) =>
                /\ B_com \notin DOMAIN LiveRows'
                /\ ret'.count >= LiveRows[B_com]
          /\ (ret'.site = x_com /\ X_com \in DOMAIN LiveRows) =>
                X_com \notin DOMAIN LiveRows']_vars

\* b.com was deleted from a store whose only row for it was B.com
C17_Witness ==
    /\ calls = 1
    /\ ret.op = "delete_cookies_for_site"
    /\ ret.site = b_com
    /\ ret.count = 1
    /\ B_com \notin DOMAIN LiveRows
    /\ log[Len(log)] = LogLine(b_com, "COOKIES", "SUCCESS", Details(1, "deleted"))

(***************************************************************************)
(* Properties of the inventory: the leading dots.                          *)
(***************************************************************************)
\* h without its first character when that is a dot
OneDotOff(h) == IF h # <<>> /\ h[1] = "." THEN SubSeq(h, 2, Len(h)) ELSE h

\* h starts with two dots
TwoLeadingDots(h) == Len(h) >= 2 /\ h[1] = "." /\ h[2] = "."

\* C18 as stated: get_unique_sites strips a single leading dot only: the
\* site of a host key is the host key without its first dot, so a host key
\* with two leading dots keeps one of them.
C18_SingleDotStripped ==
    GotSites =>
        \A h \in DOMAIN LiveRows :
           OneDotOff(h) # <<>> => InSeq(OneDotOff(h), ret.list)

\* C18 amended: get_unique_sites strips every leading dot: a host key with
\* two leading dots loses both, its site is listed without any dot in front
\* (..x.com gives x.com) and the form that keeps one dot is listed only when
\* it does not start with a dot.
C18_EveryLeadingDotStripped ==
    GotSites =>
        \A h \in DOMAIN LiveRows :
           TwoLeadingDots(h) =>
              /\ Undotted(h) # <<>> => InSeq(Undotted(h), ret.list)
              /\ ~InSeq(OneDotOff(h), ret.list)
              /\ h = dotdot_x_com =>
                    InSeq(x_com, ret.list) /\ ~InSeq(dot_x_com, ret.list)

\* the inventory of a store whose only host key is ..x.com
C18_Witness ==
    /\ GotSites
    /\ DOMAIN LiveRows = {dotdot_x_com}
    /\ ret.list = <<x_com>>

\* C19: the count returned by a delete_cookies_for_site that completes
\* without error is the number of rows that were in the store before the
\* call and are not in it after: a row that matches several of the nine
\* patterns is counted once.  The count logged is the same.
C19_CountIsRowsRemoved ==
    [][IsDeleteCookiesStep /\ ~DeleteCookiesFailed =>
          /\ Rows(LiveRows') <= Rows(LiveRows)
          /\ ret'.count = Rows(LiveRows) - Rows(LiveRows')
          /\ log'[Len(log')].details.n = ret'.count]_vars

\* x.com was deleted from the store of the example, in which www.x.com and
\* api.x.com match two patterns each: four rows gone, four counted
C19_Witness ==
    /\ calls = 1
    /\ Len(log) = 1
    /\ log[1] = LogLine(x_com, "COOKIES", "SUCCESS", Details(4, "deleted"))
    /\ ret = Returned("delete_cookies_for_site", x_com, 4, <<>>)
    /\ DOMAIN LiveRows = {evil_x_com}

\* the texts of the exceptions delete_cookies_for_site catches
CookieErrorTexts ==
    { "unable to open database file", "no such table: cookies", "database is locked",
      "disk I/O error" }

\* C20: delete_cookies_for_site never raises to its caller and logs one
\* COOKIES line for its site, whose status is SUCCESS exactly when at least
\* one row was deleted, NONE exactly when the call completed and deleted no
\* row, and ERROR exactly when an exception occurred: then the detail is the
\* message of the exception, 0 is returned, and no row is gone.  A store
\* that is held, absent or without its table always gives ERROR.
C20_StatusTellsOutcome ==
    [][IsDeleteCookiesStep =>
          LET line == log'[Len(log')]
              removed == Rows(LiveRows) - Rows(LiveRows')
          IN  /\ ~ret'.raised
              /\ Len(log') = Len(log) + 1
              /\ SubSeq(log', 1, Len(log)) = log
              /\ line.type = "COOKIES"
              /\ line.site = ret'.site
              /\ line.status \in {"SUCCESS", "NONE", "ERROR"}
              /\ Rows(LiveRows') <= Rows(LiveRows)
              /\ line.status = "SUCCESS" <=> removed > 0
              /\ line.status = "NONE" <=>
                    (removed = 0 /\ line.details = Details(0, "deleted"))
              /\ line.status = "ERROR" <=> line.details.text \in CookieErrorTexts
              /\ line.status = "ERROR" =>
                    /\ ret'.count = 0
                    /\ line.details.n = 0
                    /\ LiveRows' = LiveRows
              /\ line.status # "ERROR" =>
                    /\ ret'.count = removed
                    /\ line.details = Details(removed, "deleted")
              /\ StoreUnusable => line.status = "ERROR"]_vars

\* a call that met an exception, then a call that deleted rows
C20_Witness ==
    /\ calls = 2
    /\ Len(log) = 2
    /\ log[1].status = "ERROR"
    /\ log[1].details = Details(0, "disk I/O error")
    /\ log[2].status = "SUCCESS"
    /\ ret.op = "delete_cookies_for_site"
    /\ ret.count > 0

(***************************************************************************)
(* Properties of storage deletion: an artifact that cannot be removed.     *)
(***************************************************************************)
\* what the returning call of the step printed on the console: the items
\* whose removal raised
CouldNotDelete == FoldersCall(storage, log, ret'.site, 0).printed

\* the matching children the call left in place
LeftBehind(r) ==
    { c \in ChildrenOf(storage', r) : FoldContains(c.name, ret'.site) }

\* C21: in delete_site_data_folders, when a matching artifact cannot be
\* removed, the failure is logged and skipped: the artifact left in place has
\* its failure reported and is not named as deleted, every other matching
\* artifact of the same root and of the remaining roots is removed, and the
\* call returns normally.
C21_FailureLoggedAndSkipped ==
    [][IsFoldersStep =>
          /\ StorageDeletionDone(ret'.site)
          /\ \A r \in StorageRoots :
                \A c \in LeftBehind(r) :
                   ItemRecord(r, c.name) \in CouldNotDelete]_vars

(***************************************************************************)
(* Properties of cookie deletion: a call that fails.                       *)
(***************************************************************************)
\* C23: when delete_cookies_for_site fails with an exception at any point,
\* also after some of the nine patterns were applied, the cookie store has
\* exactly the rows it had before the call: no partial deletion is committed,
\* no store file that existed is changed, and the call returns (0, without
\* raising).
C23_FailedCallChangesNoRow ==
    [][IsDeleteCookiesStep /\ DeleteCookiesFailed =>
          /\ LiveRows' = LiveRows
          /\ \A p \in CandidatePaths :
                /\ fs_cookies[p].exists => fs_cookies'[p] = fs_cookies[p]
                /\ fs_cookies'[p].rows = fs_cookies[p].rows
          /\ COOKIES_DB' = COOKIES_DB
          /\ ~ret'.raised
          /\ ret'.count = 0]_vars

\* the store of the example, on which a deletion of x.com failed with an
\* sqlite3 error after the connection was opened: x.com and its subdomains
\* are still in it
C23_Witness ==
    /\ calls = 1
    /\ ret = Returned("delete_cookies_for_site", x_com, 0, <<>>)
    /\ Len(log) = 1
    /\ log[1] = LogLine(x_com, "COOKIES", "ERROR", Details(0, "disk I/O error"))
    /\ {x_com, dot_x_com, www_x_com} \subseteq DOMAIN LiveRows

(***************************************************************************)
(* The list and the deletion together: get_unique_sites on a drawn cookie  *)
(* store, then delete_cookies_for_site of a site of the list it returned.  *)
(***************************************************************************)
InitRefresh ==
    /\ InitStore
    /\ storage = EmptyProfileStorage
    /\ log = <<>>
    /\ tmpFiles = 0
    /\ ret = NoCall
    /\ calls = 0
    /\ backup = NoBackup
    /\ NoBatch
    /\ NoDialog

NextRefresh ==
    \/ \E copyOk \in BOOLEAN, sql \in SqlOutcomes : get_unique_sites(copyOk, sql)
    \/ \E i \in 1..Len(ret.list), fault \in DeleteFaults :
          /\ GotSites
          /\ delete_cookies_for_site(ret.list[i], fault)

SpecRefresh == InitRefresh /\ [][NextRefresh]_vars

\* C24: for every site s returned by get_unique_sites(), after
\* delete_cookies_for_site(s) completes without error, a fresh
\* get_unique_sites() on the same store no longer contains s: every host key
\* that normalizes to s, with any number of leading dots, is gone.
C24_DeletedSiteNoLongerListed ==
    [][(/\ GotSites
        /\ IsDeleteCookiesStep
        /\ ~DeleteCookiesFailed
        /\ InSeq(ret'.site, ret.list))
          => /\ ~InSeq(ret'.site, UniqueSites(LiveRows'))
             /\ \A h \in DOMAIN LiveRows :
                   Undotted(h) = ret'.site => h \notin DOMAIN LiveRows'
             /\ COOKIES_DB' = COOKIES_DB]_vars

\* x.com was listed for a store of two rows, one of them a host key of
\* x.com, and deleted: only evil-x.com is left
C24_Witness ==
    /\ calls = 2
    /\ ret = Returned("delete_cookies_for_site", x_com, 1, <<>>)
    /\ log[Len(log)].status = "SUCCESS"
    /\ LiveRows = SetToBag({evil_x_com})
    /\ UniqueSites(LiveRows) = <<evil_x_com>>

(***************************************************************************)
(* The confirmation dialog and perform_deletion.  The dialog holds the     *)
(* grab, so nothing else of the application is reachable while it is open; *)
(* its timer callbacks are commands of the dialog and go with it when it   *)
(* is destroyed.                                                           *)
(***************************************************************************)
\* self.countdown_seconds = 5
CountdownStart == 5

\* a variant of update_countdown_body that enables the button as soon as
\* the countdown has come to 0
update_countdown_eager(seconds) ==
    IF seconds > 1
    THEN [countdown_seconds |-> seconds - 1, confirm_button |-> "disabled"]
    ELSE [countdown_seconds |-> 0, confirm_button |-> "normal"]

\* the body of update_countdown: above 0 the countdown goes down by one and
\* the callback is scheduled again, the button staying as it is, disabled;
\* at 0 the button is enabled and nothing is scheduled
update_countdown_body(seconds) ==
    IF seconds > 0
    THEN [countdown_seconds |-> seconds - 1, confirm_button |-> "disabled"]
    ELSE [countdown_seconds |-> seconds, confirm_button |-> "normal"]

\* initiate_deletion for the listbox selection chosen: a warning when it is
\* empty; otherwise the dialog with its button disabled, and the first call
\* of update_countdown
initiate_deletion(chosen) ==
    /\ ~confirm_window
    /\ pc = "idle"
    /\ UNCHANGED <<fs_cookies, COOKIES_DB, dbLocked, storage, log, tmpFiles, ret, calls,
                   pc, idx, success_count, error_count, progress_window, log_text, backup>>
    /\ IF Selection(1, chosen) = <<>>
       THEN UNCHANGED <<selected, confirm_window, countdown_seconds, confirm_button,
                        timer_callbacks, asked>>
       ELSE LET c == update_countdown_body(CountdownStart)
            IN  /\ selected' = Selection(1, chosen)
                /\ confirm_window' = TRUE
                /\ countdown_seconds' = c.countdown_seconds
                /\ confirm_button' = c.confirm_button
                /\ timer_callbacks' = 0
                /\ asked' = <<>>

\* update_countdown as the callback of window.after(1000, ...): pending as
\* long as the dialog is open and the button has not been enabled
update_countdown ==
    /\ confirm_window
    /\ confirm_button = "disabled"
    /\ LET c == update_countdown_body(countdown_seconds)
       IN  /\ countdown_seconds' = c.countdown_seconds
           /\ confirm_button' = c.confirm_button
    /\ timer_callbacks' = timer_callbacks + 1
    /\ UNCHANGED <<fs_cookies, COOKIES_DB, dbLocked, storage, log, tmpFiles, ret, calls,
                   backup, confirm_window, asked>>
    /\ UNCHANGED batchVars

\* the Cancel button, or the close box: confirm_window.destroy
cancel ==
    /\ confirm_window
    /\ confirm_window' = FALSE
    /\ confirm_button' = "destroyed"
    /\ selected' = <<>>
    /\ UNCHANGED <<fs_cookies, COOKIES_DB, dbLocked, storage, log, tmpFiles, ret, calls,
                   pc, idx, success_count, error_count, progress_window, log_text, backup,
                   countdown_seconds, timer_callbacks, asked>>

\* a variant of ShouldProceed that goes on whatever was seen and answered
ShouldProceedUnasked(running, force, still_running, continue_anyway) == TRUE

\* lines 1022-1036 of perform_deletion: whether it goes on to the progress
\* window.  running, still_running: what is_chrome_running() returned before
\* and after the force-close; force, continue_anyway: the answers to "Chrome
\* Still Running!" and to "Continue Anyway?"
ShouldProceed(running, force, still_running, continue_anyway) ==
    IF ~running THEN TRUE
    ELSE IF force THEN (~still_running \/ continue_anyway)
    ELSE continue_anyway

\* the checks made and the prompts answered on the way
Asked(running, force, still_running, continue_anyway) ==
    <<Checked(running)>> \o
    (IF ~running THEN <<>>
     ELSE <<Answered("Chrome Still Running!", force)>> \o
          (IF force
           THEN <<Checked(still_running)>> \o
                (IF still_running
                    THEN <<Answered("Continue Anyway?", continue_anyway)>> ELSE <<>>)
           ELSE <<Answered("Continue Anyway?", continue_anyway)>>))

\* perform_deletion(sites, confirm_window), the command of the confirm
\* button, which acts only when the button is enabled.  released: the
\* force-close ended the process that held the store; copyOk, sql: what the
\* refresh_list of kill_chrome_and_refresh meets in get_unique_sites
perform_deletion(running, force, released, copyOk, sql, still_running, continue_anyway) ==
    /\ confirm_window
    /\ confirm_button = "normal"
    /\ pc = "idle"
    /\ confirm_window' = FALSE
    /\ confirm_button' = "destroyed"
    \* what is not asked has no answer
    /\ ~running => ~force
    /\ ~(running /\ force) => ~still_running
    /\ ~(running /\ (~force \/ still_running)) => ~continue_anyway
    /\ asked' = Asked(running, force, still_running, continue_anyway)
    /\ UNCHANGED <<storage, log, backup, countdown_seconds, timer_callbacks>>
    /\ IF running /\ force
       THEN \* self.kill_chrome_and_refresh()
            /\ calls < MaxCalls
            /\ calls' = calls + 1
            /\ dbLocked' = (dbLocked /\ ~released)
            /\ get_unique_sites_body(copyOk, sql)
       ELSE /\ ~released /\ copyOk /\ sql = "ok"
            /\ UNCHANGED <<fs_cookies, COOKIES_DB, dbLocked, tmpFiles, ret, calls>>
    /\ IF ShouldProceed(running, force, still_running, continue_anyway)
       THEN \* the progress window, and self.root.after(100, execute_deletion)
            /\ pc' = "loop"
            /\ progress_window' = TRUE
            /\ UNCHANGED <<selected, idx, success_count, error_count, log_text>>
       ELSE \* return
            /\ selected' = <<>>
            /\ UNCHANGED <<pc, idx, success_count, error_count, progress_window, log_text>>

\* the cookie stores of a session of the application; its batch meets no
\* failure but an sqlite3 error, and its progress window stays open
GuiStores ==
    { DbFile(TRUE, SetToBag({a_com, dot_a_com, target_com, www_x_com, evil_x_com})),
      DbFile(TRUE, SetToBag({x_com, X_com})) }

InitGui ==
    /\ COOKIES_DB = PrimaryPath
    /\ \E primary \in GuiStores :
          fs_cookies = [p \in CandidatePaths |-> IF p = PrimaryPath THEN primary ELSE NoFile]
    /\ dbLocked \in BOOLEAN
    /\ storage \in BatchStorages
    /\ log = <<>>
    /\ tmpFiles = 0
    /\ ret = NoCall
    /\ calls = 0
    /\ backup = NoBackup
    /\ NoBatch
    /\ NoDialog

NextGui ==
    \/ \E chosen \in SUBSET (1..Len(ListedSites)) : initiate_deletion(chosen)
    \/ update_countdown
    \/ cancel
    \/ \E running, force, released, copyOk, still_running, continue_anyway \in BOOLEAN,
          sql \in SqlOutcomes :
          perform_deletion(running, force, released, copyOk, sql, still_running,
                           continue_anyway)
    \/ \E fault \in {"none", "ioerror"} : execute_deletion_site(fault, 0, "none")
    \/ execute_deletion_summary

SpecGui == InitGui /\ [][NextGui]_vars

(***************************************************************************)
(* Properties of the confirmation dialog and of perform_deletion.          *)
(***************************************************************************)
\* the step is perform_deletion: the dialog goes and a first check is made
IsPerformStep == confirm_window /\ ~confirm_window' /\ asked' # <<>>

\* the step is the dialog being cancelled
IsCancelStep == confirm_window /\ ~confirm_window' /\ asked' = <<>>

\* the step schedules execute_deletion
Schedules == pc = "idle" /\ pc' = "loop"

\* the step changes the cookie store or the storage
TouchesData == fs_cookies' # fs_cookies \/ storage' # storage

\* Chrome was detected running by the first check
DetectedRunning(trace) == trace[1] = Checked(TRUE)

\* the last thing asked was "Continue Anyway?", and the answer was yes / no
ContinuedAnyway(trace) == trace[Len(trace)] = Answered("Continue Anyway?", TRUE)

Declined(trace) == trace[Len(trace)] = Answered("Continue Anyway?", FALSE)

\* the user had Chrome force-closed and the check after it found none
ForceClosed(trace) ==
    /\ Len(trace) = 3
    /\ trace[2] = Answered("Chrome Still Running!", TRUE)
    /\ trace[3] = Checked(FALSE)

\* C22: the precondition that the browser be closed is enforced by the GUI:
\* execute_deletion is scheduled by perform_deletion only, and when Chrome
\* was detected running only after the user answered yes to "Continue
\* Anyway?" or after a force-close left Chrome not running; when the user
\* declines nothing is scheduled, and no cookie row and no storage artifact
\* is deleted: the store and the storage change during the batch only.
C22_RunningChromeNeedsConsent ==
    [][/\ Schedules =>
             /\ IsPerformStep
             /\ DetectedRunning(asked') =>
                   (ContinuedAnyway(asked') \/ ForceClosed(asked'))
       /\ (IsPerformStep /\ Declined(asked')) =>
             /\ pc' = "idle"
             /\ selected' = <<>>
             /\ ~TouchesData
             /\ log' = log
       /\ TouchesData => pc = "loop"]_vars

\* Chrome was detected running, the user had it force-closed, it was
\* detected again, the user went on anyway: the batch is scheduled
C22_Witness ==
    /\ pc = "loop"
    /\ idx = 0
    /\ selected # <<>>
    /\ asked = <<Checked(TRUE), Answered("Chrome Still Running!", TRUE),
                 Checked(TRUE), Answered("Continue Anyway?", TRUE)>>

\* C25: in the confirmation dialog the confirm button stays disabled until
\* the countdown started at 5 has ticked down to 0, which takes five
\* one-second timer callbacks; perform_deletion is invoked for a selection
\* only through the enabled button, so not before the countdown has elapsed;
\* cancelling the dialog at any time leads to no deletion: nothing is
\* scheduled, and the store and the storage change during a batch only,
\* which perform_deletion alone starts.
C25_ConfirmOnlyAfterCountdown ==
    [][/\ confirm_window =>
             /\ confirm_button \in {"disabled", "normal"}
             /\ confirm_button = "normal" <=> timer_callbacks = CountdownStart
             /\ timer_callbacks < CountdownStart =>
                   countdown_seconds = CountdownStart - 1 - timer_callbacks
             /\ timer_callbacks = CountdownStart => countdown_seconds = 0
             /\ selected # <<>>
             /\ pc = "idle"
       /\ IsPerformStep =>
             /\ confirm_button = "normal"
             /\ timer_callbacks = CountdownStart
             /\ countdown_seconds = 0
       /\ IsCancelStep =>
             /\ pc' = "idle"
             /\ selected' = <<>>
             /\ ~TouchesData
             /\ log' = log
       /\ Schedules => IsPerformStep
       /\ TouchesData => pc = "loop"]_vars

\* the dialog after the fifth timer callback: the countdown is at 0 and the
\* button has been enabled
C25_Witness ==
    /\ confirm_window
    /\ confirm_button = "normal"
    /\ timer_callbacks = 5
    /\ countdown_seconds = 0
    /\ pc = "idle"
=============================================================================
